---- MODULE Spec2Model ----
(***************************************************************************)
(* A model of evolve-words (src/evolve_words/app.py): the Mutate           *)
(* operators, the loading of the fitness landscape, start_world, and the   *)
(* run_world thread worker with its cooperative cancellation, its          *)
(* Progress messages and its final notification.                           *)
(*                                                                         *)
(* A word is a sequence of one-character strings.  A run_world worker is   *)
(* identified by the order in which start_world launched it (1, 2, ...).   *)
(* Each worker is a thread; its steps interleave with the steps of the     *)
(* other workers and with the handlers of the user interface.              *)
(***************************************************************************)
EXTENDS Integers, Sequences, FiniteSets

\* ------------------------------------------------------------------ bounds

\* How many letters of ascii_lowercase the random choices draw from.
NumLetters == 2

\* How many times start_world launches a run_world worker.
MaxRuns == 2

\* How many generations a run may complete.
MaxGen == 3

\* The longest word a Mutate operator is called with on its own.
MaxWordLen == 3

\* How many generations a run may complete in a session with relaunches.
MaxGenRelaunch == 1

\* How many generations an uncancelled run counts and records.
MaxGenLive == 2

\* The largest population the model expands by a further generation.
MaxParents == 2

\* The most parents of a generation whose survival rate is computed alone.
MaxSurvivalParents == 12

\* ------------------------------------------------------- program constants

DEFAULT_TARGET == 3000

Alphabet ==
    << "a", "b", "c", "d", "e", "f", "g", "h", "i", "j", "k", "l", "m",
       "n", "o", "p", "q", "r", "s", "t", "u", "v", "w", "x", "y", "z" >>

\* string.ascii_lowercase, cut to its first NumLetters letters.
ascii_lowercase == { Alphabet[i] : i \in 1..NumLetters }

\* ------------------------------------------------------------------ Mutate

\* Mutate.random_char: the letters choice(ascii_lowercase) can return.
random_char == ascii_lowercase

\* word[:n] and word[n:] of Python, for 0 <= n <= len(word).
Take(word, n) == SubSeq(word, 1, n)
Drop(word, n) == SubSeq(word, n + 1, Len(word))

\* randint(0, len(word) - 1): both ends included.
Positions(word) == 0..(Len(word) - 1)

\* A point mutation that keeps the character it replaces.
PointKeepsOld(word) ==
    IF word = << >> THEN { word }
    ELSE { Take(word, position) \o << c >> \o Drop(word, position) :
             position \in Positions(word), c \in random_char }

\* A point mutation that never draws the character it replaces.
PointAlwaysChanges(word) ==
    IF word = << >> THEN { word }
    ELSE UNION { { Take(word, position) \o << c >> \o Drop(word, position + 1) :
                     c \in random_char \ { word[position + 1] } } :
                 position \in Positions(word) }

\* Mutate.point: every word the call can return.
point(word) ==
    IF word = << >> THEN { word }
    ELSE { Take(word, position) \o << c >> \o Drop(word, position + 1) :
             position \in Positions(word), c \in random_char }

\* A deletion without the test for the empty word: randint(0, -1) raises,
\* and the call returns nothing.
DeletionUnguarded(word) ==
    { Take(word, position) \o Drop(word, position + 1) :
        position \in Positions(word) }

\* Mutate.deletion: every word the call can return.
deletion(word) ==
    IF word = << >> THEN { word }
    ELSE { Take(word, position) \o Drop(word, position + 1) :
             position \in Positions(word) }

\* Mutate.insertion: every word the call can return.
insertion(word) ==
    IF word = << >> THEN { word }
    ELSE { Take(word, position) \o << c >> \o Drop(word, position) :
             position \in Positions(word), c \in random_char }

\* Mutate.randomly: choice of one of the three operators, applied to word.
randomly(word) == point(word) \cup deletion(word) \cup insertion(word)

\* ------------------------------------------------------- the word source

\* str.lower on one character.
LowerChar(c) ==
    CASE c = "A" -> "a"
      [] c = "B" -> "b"
      [] c = "C" -> "c"
      [] OTHER -> c

\* str.lower on a word.
Lower(word) == [ i \in DOMAIN word |-> LowerChar(word[i]) ]

\* The contents read_text().split() can give: the tokens of a word file.
WordFiles ==
    { { << "a" >> },
      { << "A" >>, << "b" >> },
      { << "a" >>, << "a", "b" >>, << "a", "b", "c" >> },
      { << "a" >>, << "B" >>, << "a", "a" >> },
      { << "a", "b" >> } }

\* ------------------------------------------------------------------- state

VARIABLES
    loader,             \* load_words: "loading", "ready" or "failed"
    words,              \* self._words
    quit,               \* the application was quit
    nruns,              \* how many run_world workers were launched
    pc,                 \* where each worker is in run_world
    is_cancelled,       \* worker.is_cancelled of each worker
    progenitor,         \* run_world's argument
    target_population,  \* run_world's argument
    population,         \* run_world's local
    generation,         \* run_world's local
    survival,           \* the list object run_world's local names
    offspring,          \* run_world's local
    posted,             \* the Progress messages each worker posted, in order
    notified,           \* the notifications each worker issued, in order
    signal,             \* history: where each worker was when it was cancelled
    saw_cancel,         \* history: the worker has read is_cancelled as True
    op,                 \* the function last called on its own, "none" so far
    arg,                \* the argument of that call
    result              \* what that call returned

vars ==
    << loader, words, quit, nruns, pc, is_cancelled, progenitor,
       target_population, population, generation, survival, offspring,
       posted, notified, signal, saw_cancel, op, arg, result >>

\* The variables of a function called on its own.
call == << op, arg, result >>

\* The variables of the application.
app ==
    << loader, words, quit, nruns, pc, is_cancelled, progenitor,
       target_population, population, generation, survival, offspring,
       posted, notified, signal, saw_cancel >>

Runs == 1..MaxRuns

\* The workers whose thread has not ended.
Running == { r \in Runs : pc[r] \in { "while", "for", "mutate", "cull", "notify" } }

\* Where worker r is in run_world: the generation it is in and how many
\* offspring of that generation it has produced.
Position(r) ==
    [ generation |-> generation[r], offspring |-> Len(offspring[r]) ]

\* The position recorded for a worker that nothing has cancelled.
NoSignal == [ generation |-> -1, offspring |-> 0 ]

\* set(population)
ToSet(seq) == { seq[i] : i \in DOMAIN seq }

\* The application after construction: nothing loaded, no worker.
Constructed ==
    /\ loader = "loading"
    /\ words = { }
    /\ quit = FALSE
    /\ nruns = 0
    /\ pc = [ r \in Runs |-> "idle" ]
    /\ is_cancelled = [ r \in Runs |-> FALSE ]
    /\ progenitor = [ r \in Runs |-> << >> ]
    /\ target_population = [ r \in Runs |-> 0 ]
    /\ population = [ r \in Runs |-> << >> ]
    /\ generation = [ r \in Runs |-> 0 ]
    /\ survival = [ r \in Runs |-> << >> ]
    /\ offspring = [ r \in Runs |-> << >> ]
    /\ posted = [ r \in Runs |-> << >> ]
    /\ notified = [ r \in Runs |-> << >> ]
    /\ signal = [ r \in Runs |-> NoSignal ]
    /\ saw_cancel = [ r \in Runs |-> FALSE ]

Init ==
    /\ Constructed
    /\ op = "none"
    /\ arg = << >>
    /\ result = << >>

\* ------------------------------------------------------------- load_words

\* load_words: with a word file found, self._words is the set of its
\* lower-cased tokens and Ready is posted; with none, an error is shown.
LoadWords ==
    /\ loader = "loading"
    /\ UNCHANGED call
    /\ \E found \in BOOLEAN :
         IF found
         THEN \E file \in WordFiles :
                /\ words' = { Lower(word) : word \in file }
                /\ loader' = "ready"
         ELSE /\ loader' = "failed"
              /\ UNCHANGED words
    /\ UNCHANGED << quit, nruns, pc, is_cancelled, progenitor,
                    target_population, population, generation, survival,
                    offspring, posted, notified, signal, saw_cancel >>

\* ------------------------------------------------------------ start_world

\* What the IntInput can hold when start_world reads it: nothing, or the
\* digits of an integer.
Blank == [ blank |-> TRUE ]
IntInputValues ==
    { Blank } \cup { [ blank |-> FALSE, n |-> n ] : n \in (-1)..(MaxParents + 1) }

\* A start_world without the test of the target.
TargetOfUnchecked(value) == IF value.blank THEN 0 ELSE value.n

\* start_world's target: int(value), 0 on ValueError; a target below 1 sets
\* the input to DEFAULT_TARGET and starts over.
TargetOf(value) ==
    LET parsed == IF value.blank THEN 0 ELSE value.n
    IN  IF parsed < 1 THEN DEFAULT_TARGET ELSE parsed

\* EvolveWordsApp.progenitor: the words choice() draws from.
Progenitors == { word \in words : Len(word) = 1 }

\* @work(thread=True, exclusive=True): launching a worker cancels the workers
\* of the group that are still running.  A thread worker is cancelled by
\* setting its flag, which its thread reads when it polls is_cancelled;
\* nothing waits for the thread to end.
CancelWorkers(flags, running) ==
    [ q \in Runs |-> IF q \in running THEN TRUE ELSE flags[q] ]

\* The history of a cancellation: the position of each worker it is the
\* first to cancel.
Signalled ==
    [ q \in Runs |->
        IF q \in Running /\ ~is_cancelled[q] THEN Position(q) ELSE signal[q] ]

\* start_world, through to the launch of the run_world worker r and the
\* worker's set up.  With no one-letter word, progenitor() raises and
\* nothing is launched.
Launch(r) ==
    /\ loader = "ready"
    /\ UNCHANGED call
    /\ ~quit
    /\ \E value \in IntInputValues, word \in Progenitors :
         /\ nruns' = r
         /\ is_cancelled' = CancelWorkers(is_cancelled, Running)
         /\ signal' = Signalled
         /\ pc' = [ pc EXCEPT ![r] = "while" ]
         /\ progenitor' = [ progenitor EXCEPT ![r] = word ]
         /\ target_population' = [ target_population EXCEPT ![r] = TargetOf(value) ]
         /\ population' = [ population EXCEPT ![r] = << word >> ]
         /\ generation' = [ generation EXCEPT ![r] = 0 ]
         /\ survival' = [ survival EXCEPT ![r] = << >> ]
    /\ UNCHANGED << loader, words, quit, offspring, posted, notified, saw_cancel >>

\* start_world, the first time Evolve! is pressed.
StartWorld ==
    /\ nruns = 0
    /\ Launch(1)

\* start_world, pressed again: the earlier worker may still be running.
StartWorldAgain ==
    /\ nruns >= 1
    /\ nruns < MaxRuns
    /\ Launch(nruns + 1)

\* The ctrl+q binding: quitting the application cancels every worker.
Quit ==
    /\ ~quit
    /\ UNCHANGED call
    /\ quit' = TRUE
    /\ is_cancelled' = CancelWorkers(is_cancelled, Running)
    /\ signal' = Signalled
    /\ UNCHANGED << loader, words, nruns, pc, progenitor, target_population,
                    population, generation, survival, offspring, posted,
                    notified, saw_cancel >>

\* --------------------------------------------------------------- run_world

\* A while condition that lets a population of the target size go on.
LoopConditionInclusive(pop, target) == pop # << >> /\ Len(pop) <= target

\* The while condition: the population has neither collapsed nor reached
\* the target.
LoopCondition(pop, target) == pop # << >> /\ Len(pop) < target

\* The offspring replace the population instead of joining it.
ExtendDropsParents(pop, off) == off

\* population.extend(offspring)
\* An extend that appends the offspring twice.
ExtendTwice(pop, off) == pop \o off \o off

Extend(pop, off) == pop \o off

\* A cull that keeps everybody.
NoCull(pop, oracle) == pop

\* A cull with the membership test inverted.
Unfit(pop, oracle) == SelectSeq(pop, LAMBDA word : word \notin oracle)

\* [word for word in population if word in self._words]
Fit(pop, oracle) == SelectSeq(pop, LAMBDA word : word \in oracle)

\* ---- Python's float: an IEEE 754 double, rounded to nearest, ties to even.
\* A positive double is a significand of SignificandBits binary digits (the
\* first is 1) and the power of two that the first digit weighs.  A double
\* is held as [ exp, hi, lo ]: that power, the number the first HiBits digits
\* spell and the number the other LoBits digits spell.  The operators are
\* exact for ints below 2^LimbBits, which the populations here are.

SignificandBits == 53
HiBits == 26
LoBits == SignificandBits - HiBits
LimbBits == 14
TopBits == SignificandBits - 3 * LimbBits
IntWidth == 30

\* How many binary digits a natural number below 2^IntWidth has.
BitLength(n) ==
    CHOOSE k \in 0..IntWidth : \A v \in { n } : 2 ^ k > v /\ (k = 0 \/ 2 ^ (k - 1) <= v)

\* 2^k modulo d, for k <= 2 * HiBits.
PowerMod(k, d) ==
    IF k <= HiBits THEN (2 ^ k) % d
    ELSE (((2 ^ HiBits) % d) * ((2 ^ (k - HiBits)) % d)) % d

\* Long division of r / d for 0 <= r < d: the remainder left after k binary
\* digits of the quotient.
Remainder(r, d, k) == (r * PowerMod(k, d)) % d

\* The number that len <= LimbBits digits of that quotient spell, from the
\* digit numbered from.
Chunk(r, d, from, len) == (Remainder(r, d, from - 1) * 2 ^ len) \div d

\* The same for len <= 2 * LimbBits digits.
FractionInt(r, d, from, len) ==
    IF len <= LimbBits THEN Chunk(r, d, from, len)
    ELSE Chunk(r, d, from, LimbBits) * 2 ^ (len - LimbBits)
           + Chunk(r, d, from + LimbBits, len - LimbBits)

\* The double of a significand cut to SignificandBits digits, rounded up
\* or not.
Rounded(exp, hi, lo, up) ==
    IF ~up THEN [ exp |-> exp, hi |-> hi, lo |-> lo ]
    ELSE IF lo + 1 < 2 ^ LoBits THEN [ exp |-> exp, hi |-> hi, lo |-> lo + 1 ]
    ELSE IF hi + 1 < 2 ^ HiBits THEN [ exp |-> exp, hi |-> hi + 1, lo |-> 0 ]
    ELSE [ exp |-> exp + 1, hi |-> 2 ^ (HiBits - 1), lo |-> 0 ]

RECURSIVE TrueDivide(_, _, _)
\* n / d of two positive ints, times 2^exp: the double nearest to the exact
\* quotient (Python's int / int).
TrueDivide(n, d, exp) ==
    IF n < d THEN TrueDivide(2 * n, d, exp - 1)
    ELSE LET whole == n \div d
             length == BitLength(whole)
             hi == whole * 2 ^ (HiBits - length)
                     + FractionInt(n % d, d, 1, HiBits - length)
             lo == FractionInt(n % d, d, HiBits - length + 1, LoBits)
             rem == Remainder(n % d, d, SignificandBits - length)
         IN  Rounded(exp + length - 1, hi, lo,
                     \/ 2 * rem > d
                     \/ 2 * rem = d /\ lo % 2 = 1)

\* x * a of a positive double and a positive int (float * int): the double
\* nearest to the exact product.  The significand is multiplied in limbs of
\* LimbBits digits, the carry going up, and the product cut to
\* SignificandBits digits.
Times(x, a) ==
    LET limb == 2 ^ LimbBits
        spill == 2 ^ (LoBits - LimbBits)
        t0 == (x.lo % limb) * a
        t1 == (x.lo \div limb + (x.hi % 2) * spill) * a + t0 \div limb
        t2 == ((x.hi \div 2) % limb) * a + t1 \div limb
        t3 == (x.hi \div (2 * limb)) * a + t2 \div limb
        extra == BitLength(t3) - TopBits
        cut == 2 ^ extra
        keep == 2 ^ (LimbBits - extra)
        n0 == (t0 % limb) \div cut + ((t1 % limb) % cut) * keep
        n1 == (t1 % limb) \div cut + ((t2 % limb) % cut) * keep
        n2 == (t2 % limb) \div cut + (t3 % cut) * keep
        n3 == t3 \div cut
        dropped == (t0 % limb) % cut
    IN  Rounded(x.exp + extra,
                n1 \div spill + 2 * n2 + 2 * limb * n3,
                n0 + (n1 % spill) * limb,
                \/ 2 * dropped > cut
                \/ 2 * dropped = cut /\ n0 % 2 = 1)

\* The int 0, as the survival list holds it.
Zero == [ exp |-> 0, hi |-> 0, lo |-> 0 ]

\* The survival rate of a generation: (100 / before) * len(population), the
\* quotient rounded before the product is, or the int 0 when nobody is left.
SurvivalRate(before, after) ==
    IF after > 0
    THEN CHOOSE rate \in { Times(quotient, after) :
                             quotient \in { TrueDivide(100, before, 0) } } : TRUE
    ELSE Zero

\* A Progress message that counts the generations from 1.
ProgressFromOne(r, pop, gen, before) ==
    [ population_size |-> Len(pop),
      unique_words |-> ToSet(pop),
      generation |-> gen + 1,
      last_cull |-> before - Len(pop),
      survival_history |-> r ]

\* A Progress message that counts the distinct words as the population.
ProgressCountsUnique(r, pop, gen, before) ==
    [ population_size |-> Cardinality(ToSet(pop)),
      unique_words |-> ToSet(pop),
      generation |-> gen,
      last_cull |-> before - Len(pop),
      survival_history |-> r ]

\* The Progress message of worker r.  Its survival_history is the list
\* object the worker's local names, not a copy: the field holds the
\* identity of that list, and SurvivalHistory reads what it holds now.
Progress(r, pop, gen, before) ==
    [ population_size |-> Len(pop),
      unique_words |-> ToSet(pop),
      generation |-> gen,
      last_cull |-> before - Len(pop),
      survival_history |-> r ]

SurvivalHistory(event) == survival[event.survival_history]

\* generation += 1
NextGeneration(gen) == gen + 1

\* A notification with the test of the population inverted.
NotificationInverted(pop, gen) ==
    IF pop = << >>
    THEN [ severity |-> "information",
           unique |-> Cardinality(ToSet(pop)),
           generations |-> gen ]
    ELSE [ severity |-> "warning", unique |-> 0, generations |-> gen ]

\* The notification at the end of run_world.
Notification(pop, gen) ==
    IF pop # << >>
    THEN [ severity |-> "information",
           unique |-> Cardinality(ToSet(pop)),
           generations |-> gen ]
    ELSE [ severity |-> "warning", unique |-> 0, generations |-> gen ]

\* The test of the while loop.  The model expands a population only within
\* its bounds: at most gens generations, of at most MaxParents parents.
Loop(r, gens) ==
    /\ pc[r] = "while"
    /\ UNCHANGED call
    /\ IF LoopCondition(population[r], target_population[r])
       THEN /\ generation[r] < gens
            /\ Len(population[r]) <= MaxParents
            /\ offspring' = [ offspring EXCEPT ![r] = << >> ]
            /\ pc' = [ pc EXCEPT ![r] = "for" ]
       ELSE /\ pc' = [ pc EXCEPT ![r] = "notify" ]
            /\ UNCHANGED offspring
    /\ UNCHANGED << loader, words, quit, nruns, is_cancelled, progenitor,
                    target_population, population, generation, survival,
                    posted, notified, signal, saw_cancel >>

\* A poll that leaves the for loop's generation and goes on to the
\* notification (a break) instead of returning.
PollBreaks(flag) == IF flag THEN "notify" ELSE "mutate"

\* A poll that never looks at the flag.
PollIgnores(flag) == "mutate"

\* What the for loop does at the head of an iteration, given the flag it
\* reads: return when cancelled, mutate the next word otherwise.
Poll(flag) == IF flag THEN "cancelled" ELSE "mutate"

\* A for loop with the poll hoisted out of it: is_cancelled is read once a
\* generation, before the first word.
ForPollsOnce(r) ==
    /\ pc[r] = "for"
    /\ UNCHANGED call
    /\ LET exhausted == Len(offspring[r]) = Len(population[r])
           polled == offspring[r] = << >> /\ is_cancelled[r]
       IN  /\ pc' = [ pc EXCEPT ![r] = IF exhausted THEN "cull" ELSE Poll(polled) ]
           /\ saw_cancel' = [ saw_cancel EXCEPT ![r] = ~exhausted /\ polled ]
    /\ UNCHANGED << loader, words, quit, nruns, is_cancelled, progenitor,
                    target_population, population, generation, survival,
                    offspring, posted, notified, signal >>

\* The head of the for loop over the population: past the last word the
\* loop ends, otherwise the worker polls is_cancelled.
For(r) ==
    /\ pc[r] = "for"
    /\ UNCHANGED call
    /\ LET exhausted == Len(offspring[r]) = Len(population[r])
       IN  /\ pc' = [ pc EXCEPT ![r] =
                        IF exhausted THEN "cull" ELSE Poll(is_cancelled[r]) ]
           /\ saw_cancel' = [ saw_cancel EXCEPT ![r] =
                                ~exhausted /\ is_cancelled[r] ]
    /\ UNCHANGED << loader, words, quit, nruns, is_cancelled, progenitor,
                    target_population, population, generation, survival,
                    offspring, posted, notified, signal >>

\* offspring.append(Mutate.randomly(word))
MutateWord(r) ==
    /\ pc[r] = "mutate"
    /\ UNCHANGED call
    /\ \E child \in randomly(population[r][Len(offspring[r]) + 1]) :
         offspring' = [ offspring EXCEPT ![r] = Append(@, child) ]
    /\ pc' = [ pc EXCEPT ![r] = "for" ]
    /\ UNCHANGED << loader, words, quit, nruns, is_cancelled, progenitor,
                    target_population, population, generation, survival,
                    posted, notified, signal, saw_cancel >>

\* The rest of the loop body: the offspring join the population, the unfit
\* are culled, the survival rate is recorded, Progress is posted and the
\* generation is counted.
Cull(r) ==
    /\ pc[r] = "cull"
    /\ UNCHANGED call
    /\ LET extended == Extend(population[r], offspring[r])
           before == Len(extended)
           fit == Fit(extended, words)
       IN  /\ population' = [ population EXCEPT ![r] = fit ]
           /\ survival' = [ survival EXCEPT ![r] =
                              Append(@, SurvivalRate(before, Len(fit))) ]
           /\ posted' = [ posted EXCEPT ![r] =
                            Append(@, Progress(r, fit, generation[r], before)) ]
    /\ generation' = [ generation EXCEPT ![r] = NextGeneration(@) ]
    /\ offspring' = [ offspring EXCEPT ![r] = << >> ]
    /\ pc' = [ pc EXCEPT ![r] = "while" ]
    /\ UNCHANGED << loader, words, quit, nruns, is_cancelled, progenitor,
                    target_population, notified, signal, saw_cancel >>

\* After the loop: the notification of the outcome.
Notify(r) ==
    /\ pc[r] = "notify"
    /\ UNCHANGED call
    /\ notified' = [ notified EXCEPT ![r] =
                       Append(@, Notification(population[r], generation[r])) ]
    /\ pc' = [ pc EXCEPT ![r] = "done" ]
    /\ UNCHANGED << loader, words, quit, nruns, is_cancelled, progenitor,
                    target_population, population, generation, survival,
                    offspring, posted, signal, saw_cancel >>

While(r) == Loop(r, MaxGen)

WhileRelaunch(r) == Loop(r, MaxGenRelaunch)

\* A session in which Evolve! is pressed once; the worker is cancelled by
\* quitting the application.
Next ==
    \/ LoadWords
    \/ StartWorld
    \/ Quit
    \/ \E r \in Runs : While(r)
    \/ \E r \in Runs : For(r)
    \/ \E r \in Runs : MutateWord(r)
    \/ \E r \in Runs : Cull(r)
    \/ \E r \in Runs : Notify(r)

Spec == Init /\ [][Next]_vars

\* A session in which Evolve! is pressed up to MaxRuns times; a worker is
\* cancelled by the launch of the next.
NextRelaunch ==
    \/ LoadWords
    \/ StartWorld
    \/ StartWorldAgain
    \/ \E r \in Runs : WhileRelaunch(r)
    \/ \E r \in Runs : For(r)
    \/ \E r \in Runs : MutateWord(r)
    \/ \E r \in Runs : Cull(r)
    \/ \E r \in Runs : Notify(r)

SpecRelaunch == Init /\ [][NextRelaunch]_vars

\* ------------------------------------------ a run that nothing cancels

\* The loop body's last step in a run of any length: as Cull, with the
\* generation counted and the histories kept up to MaxGenLive generations (the
\* loop reads neither).
CullLive(r) ==
    /\ pc[r] = "cull"
    /\ UNCHANGED call
    /\ LET extended == Extend(population[r], offspring[r])
           before == Len(extended)
           fit == Fit(extended, words)
           counted == generation[r] < MaxGenLive
       IN  /\ population' = [ population EXCEPT ![r] = fit ]
           /\ survival' = [ survival EXCEPT ![r] =
                              IF counted
                              THEN Append(@, SurvivalRate(before, Len(fit)))
                              ELSE @ ]
           /\ posted' = [ posted EXCEPT ![r] =
                            IF counted
                            THEN Append(@, Progress(r, fit, generation[r], before))
                            ELSE @ ]
           /\ generation' = [ generation EXCEPT ![r] =
                                IF counted THEN NextGeneration(@) ELSE @ ]
    /\ offspring' = [ offspring EXCEPT ![r] = << >> ]
    /\ pc' = [ pc EXCEPT ![r] = "while" ]
    /\ UNCHANGED << loader, words, quit, nruns, is_cancelled, progenitor,
                    target_population, notified, signal, saw_cancel >>

WhileLive(r) == Loop(r, MaxGenLive + 1)

\* A mutation whose offspring is a word of the list.
FitMutation(r) ==
    /\ MutateWord(r)
    /\ offspring'[r][Len(offspring'[r])] \in words

\* One step of the thread of worker r.
Thread(r) ==
    \/ WhileLive(r)
    \/ For(r)
    \/ MutateWord(r)
    \/ CullLive(r)
    \/ Notify(r)

NextLive ==
    \/ LoadWords
    \/ StartWorld
    \/ \E r \in Runs : Thread(r)

\* The worker's thread keeps running, and a mutation that can be drawn
\* again and again is drawn in the end.
Fairness ==
    \A r \in Runs :
        /\ WF_vars(Thread(r))
        /\ SF_vars(FitMutation(r))

SpecLive == Init /\ [][NextLive]_vars /\ Fairness

\* ------------------------------------------- the Mutate operators, alone

\* Every word of at most n letters of the alphabet, the empty word included.
WordsUpTo(n) == UNION { [ 1..k -> ascii_lowercase ] : k \in 0..n }

InitMutate ==
    /\ Constructed
    /\ op = "none"
    /\ arg \in WordsUpTo(MaxWordLen)
    /\ result = << >>

\* A call of the function called name on arg, which returns one of outcomes
\* (none when the call raises).
Call(name, outcomes) ==
    /\ op' = name
    /\ result' \in outcomes
    /\ UNCHANGED << arg, app >>

CallPoint == Call("point", point(arg))

CallDeletion == Call("deletion", deletion(arg))

CallInsertion == Call("insertion", insertion(arg))

CallRandomly == Call("randomly", randomly(arg))

NextMutate ==
    \/ CallPoint
    \/ CallDeletion
    \/ CallInsertion
    \/ CallRandomly

SpecMutate == InitMutate /\ [][NextMutate]_vars

\* ----------------------------------------------- the survival rate, alone

\* The generations the survival rate is computed for: some parents, all of
\* them fit, and as many offspring, of which any number is fit.
Culls ==
    { [ before |-> 2 * parents, after |-> after ] :
        parents \in 1..MaxSurvivalParents, after \in 1..(2 * MaxSurvivalParents) }

InitSurvival ==
    /\ Constructed
    /\ op = "none"
    /\ arg \in { cull \in Culls :
                   cull.before \div 2 <= cull.after /\ cull.after <= cull.before }
    /\ result = << >>

CallSurvivalRate == Call("survival", { SurvivalRate(arg.before, arg.after) })

NextSurvival == CallSurvivalRate

SpecSurvival == InitSurvival /\ [][NextSurvival]_vars

\* ------------------------------------------------------------------ claims

Started == { r \in Runs : pc[r] # "idle" }

Reached(note) == note.severity = "information"

Collapsed(note) == note.severity = "warning"

\* C1: once run_world has read its worker's cancellation flag as set (the
\* per-word check of the offspring loop), that run posts no further Progress
\* message and issues no notification of an outcome, neither before that
\* moment nor after it.
C1_SilentOnceCancelSeen ==
    /\ [](\A r \in Runs : saw_cancel[r] => notified[r] = << >>)
    /\ [][\A r \in Runs :
            saw_cancel[r] => /\ posted'[r] = posted[r]
                             /\ notified'[r] = notified[r]]_vars

\* C1's case: a worker saw the cancellation in the middle of a generation,
\* after it had produced an offspring and after an earlier generation's
\* Progress message.
C1_Witness ==
    \E r \in Runs :
        /\ saw_cancel[r]
        /\ offspring[r] # << >>
        /\ posted[r] # << >>
        /\ quit

\* The state in which C2's cancellation is signalled: generation 0 has
\* produced its first offspring and has not been culled.
SignalledAfterFirstOffspring(r) ==
    /\ signal[r].generation = 0
    /\ signal[r].offspring = 1

\* An oracle that lets the population grow without bound: every member a
\* population can hold has a mutation that is a member.
AllowsGrowth == \A word \in words : randomly(word) \cap words # { }

\* C2, as stated: with an oracle that allows unbounded growth, a cancellation
\* signalled after the first offspring of generation 0 was produced leaves
\* the run with no Progress message and no notification at all.
C2_Original ==
    \A r \in Runs :
        (AllowsGrowth /\ SignalledAfterFirstOffspring(r))
            => (posted[r] = << >> /\ notified[r] = << >>)

\* C2, amended: with such an oracle and such a cancellation, the run posts
\* the Progress message of generation 0 and of no later generation; it ends
\* at the first poll of generation 1 without a notification, unless the
\* population culled in generation 0 already ends the loop, and then it
\* notifies the outcome.
C2_OnlyGenerationZero ==
    \A r \in Runs :
        (AllowsGrowth /\ SignalledAfterFirstOffspring(r)) =>
            /\ Len(posted[r]) <= 1
            /\ \A i \in DOMAIN posted[r] : posted[r][i].generation = 0
            /\ pc[r] \in { "while", "notify", "done", "cancelled" }
                 => Len(posted[r]) = 1
            /\ pc[r] = "cancelled"
                 => /\ notified[r] = << >>
                    /\ LoopCondition(population[r], target_population[r])
            /\ notified[r] # << >>
                 => ~LoopCondition(population[r], target_population[r])

\* C2's case: such a cancellation, after which the worker posted the
\* Progress message of generation 0 and then returned at its next poll.
C2_Witness ==
    \E r \in Runs :
        /\ AllowsGrowth
        /\ SignalledAfterFirstOffspring(r)
        /\ pc[r] = "cancelled"
        /\ Len(posted[r]) = 1

\* C3, as stated: a worker launched earlier posts no Progress message once a
\* later worker has been launched.
C3_OldRunIsSilent ==
    [][\A r \in Runs : posted'[r] # posted[r] => r = nruns]_vars

\* C4: the Progress messages of a run are posted with the generations
\* 0, 1, 2, ... in that order, and the survival history that the message of
\* generation N is posted with has N + 1 entries.
C4_GenerationsInOrder ==
    [][\A r \in Runs :
         posted'[r] # posted[r] =>
            LET event == posted'[r][Len(posted'[r])]
            IN  /\ posted'[r] = Append(posted[r], event)
                /\ event.generation = Len(posted[r])
                /\ Len(survival'[event.survival_history])
                     = event.generation + 1]_vars

\* C4's case: a run has posted the messages of generations 0, 1 and 2.
C4_Witness ==
    \E r \in Runs :
        /\ Len(posted[r]) = 3
        /\ posted[r][3].generation = 2

\* C5, as stated: the survival history of a Progress message that has been
\* posted never changes afterwards.
C5_HistoryIsSnapshot ==
    [][\A r \in Runs : \A i \in DOMAIN posted[r] :
         SurvivalHistory(posted[r][i])' = SurvivalHistory(posted[r][i])]_vars

\* C6: with a target of 1 or less, run_world never enters its loop body,
\* posts no Progress message, and notifies the Reached outcome with 0
\* generations.
C6_TargetOneEndsAtOnce ==
    \A r \in Started :
        target_population[r] <= 1 =>
            /\ pc[r] \in { "while", "notify", "done" }
            /\ offspring[r] = << >>
            /\ generation[r] = 0
            /\ posted[r] = << >>
            /\ pc[r] = "done" =>
                 /\ Len(notified[r]) = 1
                 /\ Reached(notified[r][1])
                 /\ notified[r][1].generations = 0

\* C6's case: a run with target 1 has ended.
C6_Witness ==
    \E r \in Runs :
        /\ target_population[r] = 1
        /\ pc[r] = "done"
        /\ notified[r] # << >>

\* C7, as stated: with an oracle that holds the progenitor and nothing else,
\* generation 0 leaves no survivor and the run ends Collapsed, never Reached.
C7_Original ==
    \A r \in Started :
        (words = { progenitor[r] } /\ posted[r] # << >>) =>
            /\ posted[r][1].population_size = 0
            /\ \A i \in DOMAIN notified[r] : Collapsed(notified[r][i])

\* C7, amended: with an oracle that holds the progenitor and nothing else,
\* every generation leaves at least one survivor, every survivor is the
\* progenitor, and the run never ends Collapsed.
C7_ProgenitorAloneSurvives ==
    \A r \in Started :
        words = { progenitor[r] } =>
            /\ \A i \in DOMAIN posted[r] :
                 /\ posted[r][i].population_size >= 1
                 /\ posted[r][i].unique_words = { progenitor[r] }
            /\ \A i \in DOMAIN notified[r] : ~Collapsed(notified[r][i])

\* C7's case: with such an oracle a generation culled its offspring and left
\* the progenitor alone.
C7_Witness ==
    \E r \in Runs :
        /\ words = { progenitor[r] }
        /\ posted[r] # << >>
        /\ posted[r][1].population_size = 1
        /\ posted[r][1].last_cull = 1

\* C8: with the progenitor in the oracle, the progenitor is in the population
\* after every cull, so the population is never empty and the Collapsed
\* outcome is never notified.
C8_ProgenitorPersists ==
    \A r \in Started :
        progenitor[r] \in words =>
            /\ progenitor[r] \in ToSet(population[r])
            /\ \A i \in DOMAIN posted[r] :
                 /\ progenitor[r] \in posted[r][i].unique_words
                 /\ posted[r][i].population_size > 0
            /\ \A i \in DOMAIN notified[r] : ~Collapsed(notified[r][i])

\* C8's case: a run has culled two generations, the second with losses, and
\* has ended.
C8_Witness ==
    \E r \in Runs :
        /\ progenitor[r] \in words
        /\ Len(posted[r]) >= 2
        /\ posted[r][2].last_cull > 0
        /\ pc[r] = "done"

\* C9: after every cull, every member of the population is a word of the
\* oracle, and so is every word of a posted message's unique_words.
C9_SurvivorsAreFit ==
    \A r \in Started :
        /\ generation[r] > 0 => ToSet(population[r]) \subseteq words
        /\ \A i \in DOMAIN posted[r] : posted[r][i].unique_words \subseteq words

\* C9's case: a cull has removed an offspring and kept two different words.
C9_Witness ==
    \E r \in Runs :
        /\ pc[r] = "while"
        /\ posted[r] # << >>
        /\ posted[r][Len(posted[r])].last_cull > 0
        /\ Cardinality(ToSet(population[r])) >= 2

\* C10: a run whose loop ends without the worker having seen a cancellation
\* issues exactly one notification, after all of its Progress messages:
\* Collapsed exactly when the population is empty after the last cull,
\* Reached otherwise; until then it has issued none.
C10_OneOutcome ==
    /\ [](\A r \in Runs :
            /\ pc[r] = "done" =>
                 /\ Len(notified[r]) = 1
                 /\ Collapsed(notified[r][1]) <=> population[r] = << >>
                 /\ Reached(notified[r][1]) <=> population[r] # << >>
                 /\ notified[r][1].generations = Len(posted[r])
            /\ pc[r] # "done" => notified[r] = << >>)
    /\ [][\A r \in Runs : notified[r] # << >> => posted'[r] = posted[r]]_vars

\* C10's case: a run has posted two Progress messages and then notified the
\* Reached outcome.
C10_Witness ==
    \E r \in Runs :
        /\ pc[r] = "done"
        /\ Len(posted[r]) = 2
        /\ Len(notified[r]) = 1
        /\ Reached(notified[r][1])

\* C11: an uncancelled run whose progenitor is a word of the list
\* eventually ends with the Reached notification, for every target (here:
\* every target a population of up to MaxParents parents can reach), given
\* fair random choices.
C11_EventuallyReached ==
    \A r \in Runs :
        (pc[r] = "while" /\ target_population[r] <= MaxParents + 1)
            ~> (pc[r] = "done" /\ Reached(notified[r][1]))

\* C11's case: a run reached the largest such target after at least MaxGenLive
\* generations, in some of which no offspring survived.
C11_Witness ==
    \E r \in Runs :
        /\ pc[r] = "done"
        /\ Reached(notified[r][1])
        /\ target_population[r] = MaxParents + 1
        /\ generation[r] = MaxGenLive
        /\ \E i \in 1..Len(posted[r]) :
             posted[r][i].population_size = 1

\* Every word got from word by inserting one letter at an index of
\* [0, len(word)], the end included.
InsertedAnywhere(word) ==
    { Take(word, position) \o << c >> \o Drop(word, position) :
        position \in 0..Len(word), c \in random_char }

\* C12, as stated: for a word of n letters Mutate.insertion can put the new
\* letter at any of the n + 1 positions 0..n: what insertion can return is
\* exactly the words got by inserting one letter at an index of [0, n].
C12_InsertionAnywhere ==
    (op = "insertion" /\ arg # << >>) => insertion(arg) = InsertedAnywhere(arg)

\* C13: for a nonempty word, whatever the random draws, deletion returns a
\* word one shorter, insertion a word one longer, point a word of the same
\* length, and randomly a word whose length differs by at most 1.
C13_Lengths ==
    arg # << >> =>
        /\ op = "deletion" => Len(result) = Len(arg) - 1
        /\ op = "insertion" => Len(result) = Len(arg) + 1
        /\ op = "point" => Len(result) = Len(arg)
        /\ op = "randomly" => Len(result) - Len(arg) \in { -1, 0, 1 }

\* C13's case: randomly returned a longer word for a word of the greatest
\* length.
C13_Witness ==
    /\ op = "randomly"
    /\ Len(arg) = MaxWordLen
    /\ Len(result) = MaxWordLen + 1

\* C14: for the empty word each of point, deletion, insertion and randomly
\* returns, and returns the empty word.
C14_EmptyWordUnchanged ==
    arg = << >> =>
        /\ point(arg) = { << >> }
        /\ deletion(arg) = { << >> }
        /\ insertion(arg) = { << >> }
        /\ randomly(arg) = { << >> }
        /\ op # "none" => result = << >>

\* C14's case: randomly was called with the empty word and returned it.
C14_Witness ==
    /\ arg = << >>
    /\ op = "randomly"
    /\ result = << >>

\* C15: the generation loop is never entered with a target below 1 or with
\* an empty progenitor: a worker start_world has launched has a target of
\* at least 1 and a one-letter progenitor of the word list, and with no
\* one-letter word nothing is launched.
C15_ValidConfiguration ==
    \A r \in Started :
        /\ target_population[r] >= 1
        /\ progenitor[r] # << >>
        /\ progenitor[r] \in Progenitors

\* C15's case: an input below 1 (or blank) was replaced by DEFAULT_TARGET
\* and the worker is inside the loop.
C15_Witness ==
    \E r \in Runs :
        /\ pc[r] = "mutate"
        /\ target_population[r] = DEFAULT_TARGET
        /\ Len(progenitor[r]) = 1

\* x <= y of two values that are each 0 or a positive double.
LessEq(x, y) ==
    \/ x = Zero
    \/ /\ y # Zero
       /\ \/ x.exp < y.exp
          \/ x.exp = y.exp /\ x.hi < y.hi
          \/ x.exp = y.exp /\ x.hi = y.hi /\ x.lo <= y.lo

\* The double of a positive int.
Float(n) == TrueDivide(n, 1, 0)

\* A survival rate that multiplies before it divides.
SurvivalRateExact(before, after) ==
    IF after > 0 THEN TrueDivide(100 * after, before, 0) ELSE Zero

\* C16, as stated: when every offspring of a generation is a word of the
\* oracle (nothing is culled), the generation's last_cull is 0 and its
\* survival rate is 100.
C16_AllFitIsHundred ==
    (op = "survival" /\ arg.after = arg.before) =>
        /\ arg.before - arg.after = 0
        /\ result = Float(100)

\* The last Progress message worker r has posted, in the next state.
Emitted(r) == posted'[r][Len(posted'[r])]

\* C17: in every completed generation the candidates are the previous
\* population followed by one offspring per member, so before is twice the
\* previous size; the survivors are the fit candidates in order, and the
\* event has population_size = the number of survivors, unique_words = the
\* set of survivors and last_cull = before - population_size.
C17_Generation ==
    [][ \A r \in Runs :
          (pc[r] = "cull" /\ pc'[r] = "while") =>
            LET previous == population[r]
                candidates == previous \o offspring[r]
                before == Len(candidates)
            IN  /\ Len(offspring[r]) = Len(previous)
                /\ before = 2 * Len(previous)
                /\ population'[r] =
                     SelectSeq(candidates, LAMBDA word : word \in words)
                /\ Len(posted'[r]) = Len(posted[r]) + 1
                /\ Emitted(r).population_size = Len(population'[r])
                /\ Emitted(r).unique_words = ToSet(population'[r])
                /\ Emitted(r).last_cull = before - Emitted(r).population_size
      ]_vars

\* C17's case: a generation of two parents was completed with one of the
\* four candidates culled and a word surviving more than once.
C17_Witness ==
    \E r \in Runs :
        /\ Len(posted[r]) = 2
        /\ posted[r][2].last_cull = 1
        /\ posted[r][2].population_size = 3
        /\ Cardinality(posted[r][2].unique_words) < 3

\* C18, as stated: the survival rate appended is 100 * after / before (0 with
\* no survivors), so it lies between 0 and 100 inclusive and is 0 exactly
\* when nobody survives.
C18_ExactRatio ==
    op = "survival" =>
        /\ result = SurvivalRateExact(arg.before, arg.after)
        /\ LessEq(Zero, result)
        /\ LessEq(result, Float(100))
        /\ result = Zero <=> arg.after = 0

\* C19: after a cancellation request is set on a worker, the worker applies
\* Mutate.randomly at most one more time: in the generation of the request
\* it has at most one offspring more than at the request, and in the next
\* generation it has none.
C19_AtMostOneMore ==
    \A r \in Runs :
        signal[r] # NoSignal =>
            IF generation[r] = signal[r].generation
            THEN Len(offspring[r]) <= signal[r].offspring + 1
            ELSE /\ generation[r] = signal[r].generation + 1
                 /\ offspring[r] = << >>
                 /\ pc[r] # "mutate"

\* C19's case: the request came between a poll and its mutation; the
\* worker made that one offspring and returned at the next poll.
C19_Witness ==
    \E r \in Runs :
        /\ signal[r] # NoSignal
        /\ pc[r] = "cancelled"
        /\ Len(offspring[r]) = signal[r].offspring + 1

\* C20: the population size never decreases from one Progress message to
\* the next, so only generation 0 can leave nobody, and a run that has
\* reached a target of at least 2 ends with at least target and at most
\* 2 * (target - 1) words.
C20_NeverShrinks ==
    \A r \in Runs :
        /\ \A i \in 1..(Len(posted[r]) - 1) :
             posted[r][i].population_size <= posted[r][i + 1].population_size
        /\ \A i \in 1..Len(posted[r]) :
             posted[r][i].population_size = 0 => posted[r][i].generation = 0
        /\ \A i \in 1..Len(notified[r]) :
             /\ Collapsed(notified[r][i]) => notified[r][i].generations = 1
             /\ (Reached(notified[r][i]) /\ target_population[r] >= 2) =>
                  /\ Len(population[r]) >= target_population[r]
                  /\ Len(population[r]) <= 2 * (target_population[r] - 1)

\* C20's case: a run reached a target of 3 with the most words it can end
\* with, 4, having grown from 2.
C20_Witness ==
    \E r \in Runs :
        /\ pc[r] = "done"
        /\ Reached(notified[r][1])
        /\ target_population[r] = MaxParents + 1
        /\ Len(population[r]) = 2 * MaxParents
        /\ Len(posted[r]) = 2
        /\ posted[r][1].population_size < posted[r][2].population_size

====
